---- MODULE Spec2Model ----
(***************************************************************************)
(* Session authentication and privilege escalation of the bazzeye          *)
(* dashboard server.                                                       *)
(*                                                                         *)
(* Spec        the per-connection AuthService (session table, two password *)
(*             tiers, lazy expiry, periodic sweep, execSudo) together with *)
(*             FileService.deleteFile, which calls execSudo.               *)
(* LiveSpec    the same service with a clock that keeps advancing.         *)
(* VaultSpec   the service and its auth.json across failing writes and     *)
(*             restarts, with legacy one-password records.                 *)
(* HandlerSpec the socket handlers of server/src/index.ts, which gate on   *)
(*             the single-flag AuthService they are written against.       *)
(* ShellSpec   the shell lines FileService builds for escalated file       *)
(*             operations, as /bin/sh and bash read them.                  *)
(* LoopSpec    the event loop with escalator child processes pending:      *)
(*             execSudo (exec) and execAsOwner (execSync).                 *)
(* PrefSpec    two services started from auth.json files that differ in    *)
(*             sudoEnabled only, given the same operations.                *)
(* ChangeSpec  the auth:set-password handler across its awaits, one        *)
(*             request per connection.                                     *)
(* NotifySpec  NotificationService: subscribe and concurrent               *)
(*             sendNotification calls.                                     *)
(*                                                                         *)
(* The clock unit is one hour (3600000 ms), the session lifetime.          *)
(***************************************************************************)
EXTENDS Integers, FiniteSets, Sequences, TLC

\* ------------------------------------------------------------------ bounds
MaxTime == 3

Conns == {"c1", "c2"}
\* Passwords a client may try, and those a tier may be set to ("" clears the tier).
Passwords == {"", "a", "b"}
NewPasswords == {"", "a"}
\* null: no hash stored.
Null == <<"null">>

\* Date.now() + 3600000, in clock units.
SessionTTL == 1

\* ------------------------------------------------------------------ bcrypt
\* bcrypt.hash(password, 10): one-way, never the clear text.
Hash(password) == <<"bcrypt", password>>

\* bcrypt.compare(password, hash)
Compare(password, hash) == hash = Hash(password)

Hashes == {Hash(p) : p \in NewPasswords \ {""}}

\* ------------------------------------------------------------------ state
VARIABLES
    sessions,               \* Map<socketId, {isAuthenticated, isSudo, expiresAt}>
    dashboardPasswordHash,  \* tier 1 hash or Null
    sudoPasswordHash,       \* tier 2 hash or Null
    now,                    \* Date.now()
    pending,                \* the call suspended on bcrypt.compare, if any
    last,                   \* the last operation, its caller, result and pre-state
    sudoMode,               \* single-flag AuthService: active sudo state
    passwordHash,           \* single-flag AuthService: the one hash or Null
    handled,                \* the last socket request handled by index.ts
    disk,                   \* storage/auth.json
    sudoEnabled,            \* the persisted preference
    filePath,               \* the path a client sent with a file request
    spawned,                \* the commands the shell ran for the last file request
    inbox,                  \* socket events received and not yet dispatched
    children,                \* escalator child processes that have not exited
    blocked,                \* the event loop's thread is inside execSync
    served,                 \* the last event the loop dispatched
    runs,                   \* two services started from files that differ in sudoEnabled
    requests,               \* the auth:set-password request of each connection
    subscriptions,          \* NotificationService: the push subscriptions
    subsFile,               \* subscriptions.json
    sends                   \* the sendNotification calls in flight

coreVars == <<sessions, dashboardPasswordHash, sudoPasswordHash, now,
              pending, last>>
handlerVars == <<sudoMode, passwordHash, handled>>
vaultVars == <<disk, sudoEnabled>>
shellVars == <<filePath, spawned>>
loopVars == <<inbox, children, blocked, served>>
pushVars == <<subscriptions, subsFile, sends>>
concVars == <<loopVars, runs, requests, pushVars>>
vars == <<coreVars, handlerVars, vaultVars, shellVars, concVars>>

NoEvent == [c |-> "-", kind |-> "none"]
NoRequest == [stage |-> "idle", password |-> "", valid |-> FALSE, against |-> Null]
SendIds == {1, 2}
NoSend == [stage |-> "idle", targets |-> <<>>, results |-> <<>>]

\* The state of the event loop and of the requests in flight before any
\* request has arrived.
ConcIdle ==
    /\ inbox = <<>>
    /\ children = {}
    /\ blocked = FALSE
    /\ served = NoEvent
    /\ runs = <<>>
    /\ requests = [c \in Conns |-> NoRequest]
    /\ subscriptions = <<>>
    /\ subsFile = <<>>
    /\ sends = [i \in SendIds |-> NoSend]

\* ------------------------------------------------------------------ session table
NewSession == [isAuthenticated |-> FALSE, isSudo |-> FALSE, expiresAt |-> 0]

\* Map.set
Put(s, c, r) == [x \in (DOMAIN s) \cup {c} |-> IF x = c THEN r ELSE s[x]]

\* Map.delete
Delete(s, c) == [x \in (DOMAIN s) \ {c} |-> s[x]]

getSession_NoExpiry(s, c, t) ==
    IF c \in DOMAIN s THEN s ELSE Put(s, c, NewSession)

\* getSession: the table after the lazy creation and the expiry check; the
\* session returned is (getSession(s, c, t))[c].
getSession(s, c, t) ==
    LET s1 == IF c \in DOMAIN s THEN s ELSE Put(s, c, NewSession)
        r  == s1[c]
    IN  IF r.isAuthenticated /\ t > r.expiresAt
        THEN Put(s1, c, [r EXCEPT !.isAuthenticated = FALSE, !.isSudo = FALSE])
        ELSE s1

removeSession(s, c) == Delete(s, c)

cleanupSessions_Inclusive(s, t) ==
    [x \in {y \in DOMAIN s : ~(s[y].expiresAt <= t)} |-> s[x]]

\* cleanupSessions: the table after the sweep.
cleanupSessions(s, t) ==
    [x \in {y \in DOMAIN s : ~(s[y].expiresAt < t)} |-> s[x]]

refreshSession_StoredFlag(s, c, t) ==
    LET s1 == IF c \in DOMAIN s THEN s ELSE Put(s, c, NewSession)
    IN  IF s1[c].isAuthenticated
        THEN Put(s1, c, [s1[c] EXCEPT !.expiresAt = t + SessionTTL])
        ELSE s1

\* refreshSession: the table after the call.
refreshSession(s, c, t) ==
    LET s1 == getSession(s, c, t)
    IN  IF s1[c].isAuthenticated
        THEN Put(s1, c, [s1[c] EXCEPT !.expiresAt = t + SessionTTL])
        ELSE s1

isAuthenticated_NoOpenMode(s, c, t, dash) ==
    getSession(s, c, t)[c].isAuthenticated

\* isAuthenticated: the value returned.
isAuthenticated(s, c, t, dash) ==
    IF dash = Null THEN TRUE ELSE getSession(s, c, t)[c].isAuthenticated

\* isAuthenticated: the table afterwards (open mode returns before getSession).
isAuthenticatedTable(s, c, t, dash) ==
    IF dash = Null THEN s ELSE getSession(s, c, t)

\* isSudo: the value returned; the table afterwards is getSession(s, c, t).
isSudo(s, c, t) == getSession(s, c, t)[c].isSudo

setAuthenticated_KeepSudo(s, c, state, t) ==
    LET s1 == getSession(s, c, t)
    IN  Put(s1, c, IF state
                   THEN [s1[c] EXCEPT !.isAuthenticated = TRUE,
                                      !.expiresAt = t + SessionTTL]
                   ELSE [s1[c] EXCEPT !.isAuthenticated = FALSE])

setAuthenticated(s, c, state, t) ==
    LET s1 == getSession(s, c, t)
    IN  Put(s1, c, IF state
                   THEN [s1[c] EXCEPT !.isAuthenticated = TRUE,
                                      !.expiresAt = t + SessionTTL]
                   ELSE [s1[c] EXCEPT !.isAuthenticated = FALSE,
                                      !.isSudo = FALSE])

setSudo_NoAuthCheck(s, c, state, t) ==
    LET s1 == getSession(s, c, t)
    IN  Put(s1, c, IF state
                   THEN [s1[c] EXCEPT !.isSudo = TRUE,
                                      !.expiresAt = t + SessionTTL]
                   ELSE [s1[c] EXCEPT !.isSudo = FALSE])

setSudo_NoRefresh(s, c, state, t) ==
    LET s1 == getSession(s, c, t)
    IN  IF ~s1[c].isAuthenticated /\ state
        THEN s1
        ELSE Put(s1, c, [s1[c] EXCEPT !.isSudo = state])

setSudo_RefreshOnRevoke(s, c, state, t) ==
    LET s1 == getSession(s, c, t)
    IN  IF ~s1[c].isAuthenticated /\ state
        THEN s1
        ELSE Put(s1, c, [s1[c] EXCEPT !.isSudo = state,
                                      !.expiresAt = t + SessionTTL])

setSudo(s, c, state, t) ==
    LET s1 == getSession(s, c, t)
    IN  IF ~s1[c].isAuthenticated /\ state
        THEN s1
        ELSE Put(s1, c, IF state
                        THEN [s1[c] EXCEPT !.isSudo = TRUE,
                                           !.expiresAt = t + SessionTTL]
                        ELSE [s1[c] EXCEPT !.isSudo = FALSE])

\* requestToggleSudo: the value returned.
requestToggleSudoResult(s, c, t, sudoHash) ==
    IF getSession(s, c, t)[c].isSudo
    THEN [success |-> TRUE, requiresPassword |-> FALSE]
    ELSE IF sudoHash = Null
         THEN [success |-> TRUE, requiresPassword |-> FALSE]
         ELSE [success |-> FALSE, requiresPassword |-> TRUE]

\* requestToggleSudo: the table afterwards.
requestToggleSudo(s, c, t, sudoHash) ==
    LET s1 == getSession(s, c, t)
    IN  IF s1[c].isSudo
        THEN setSudo(s1, c, FALSE, t)
        ELSE IF sudoHash = Null
             THEN setSudo(s1, c, TRUE, t)
             ELSE s1

\* verifySudoPassword: the value the promise resolves to.
verifySudoPassword(password, sudoHash) ==
    IF sudoHash = Null THEN TRUE ELSE Compare(password, sudoHash)

newHash_HashesEmpty(password) == Hash(password)

\* setDashboardPassword / setSudoPassword: the hash stored.
newHash(password) == IF password = "" THEN Null ELSE Hash(password)

\* The state of a connection's stored record as an operation finds it.
StateOf(s, c, t) ==
    IF c \notin DOMAIN s THEN "none"
    ELSE IF s[c].isAuthenticated /\ t > s[c].expiresAt
         THEN (IF s[c].isSudo THEN "expiredElevated" ELSE "expiredUnlocked")
    ELSE IF s[c].isAuthenticated
         THEN (IF s[c].isSudo THEN "elevated" ELSE "unlocked")
    ELSE "locked"

Did(op, c, ok, ran) ==
    [op |-> op, c |-> c, ok |-> ok, ran |-> ran, pre |-> StateOf(sessions, c, now)]

NoOne == "-"
\* No call is suspended. One bcrypt.compare is in flight at a time.
NoPending == [op |-> "none", c |-> NoOne, valid |-> FALSE]
Idle == [event |-> "none", c |-> NoOne, sudo |-> FALSE, rejected |-> FALSE,
         effects |-> {}, emitted |-> {}]
\* No shell has been started.
NoShell == [op |-> "none", stage |-> "idle"]

\* ------------------------------------------------------------------ AuthService operations
\* login, up to the await on bcrypt.compare (open mode returns without suspending).
Login(c, password) ==
    /\ pending = NoPending
    /\ IF dashboardPasswordHash = Null
       THEN /\ sessions' = setAuthenticated(sessions, c, TRUE, now)
            /\ last' = Did("login", c, TRUE, FALSE)
            /\ UNCHANGED pending
       ELSE /\ pending' = [op |-> "login", c |-> c,
                           valid |-> Compare(password, dashboardPasswordHash)]
            /\ last' = Did("loginAwait", c, FALSE, FALSE)
            /\ UNCHANGED sessions
    /\ UNCHANGED <<dashboardPasswordHash, sudoPasswordHash, now, handlerVars, vaultVars, shellVars, concVars>>

LoginResume_SetsResult(c) ==
    /\ pending.op = "login" /\ pending.c = c
    /\ pending' = NoPending
    /\ sessions' = setAuthenticated(sessions, c, pending.valid, now)
    /\ last' = Did("login", c, pending.valid, FALSE)
    /\ UNCHANGED <<dashboardPasswordHash, sudoPasswordHash, now, handlerVars, vaultVars, shellVars, concVars>>

\* login, after the await.
LoginResume(c) ==
    /\ pending.op = "login" /\ pending.c = c
    /\ pending' = NoPending
    /\ sessions' = IF pending.valid
                   THEN setAuthenticated(sessions, c, TRUE, now)
                   ELSE sessions
    /\ last' = Did("login", c, pending.valid, FALSE)
    /\ UNCHANGED <<dashboardPasswordHash, sudoPasswordHash, now, handlerVars, vaultVars, shellVars, concVars>>

\* logout: setAuthenticated(socketId, false)
Logout(c) ==
    /\ sessions' = setAuthenticated(sessions, c, FALSE, now)
    /\ last' = Did("logout", c, TRUE, FALSE)
    /\ UNCHANGED <<dashboardPasswordHash, sudoPasswordHash, now, pending, handlerVars, vaultVars, shellVars, concVars>>

RequestToggleSudo(c) ==
    /\ sessions' = requestToggleSudo(sessions, c, now, sudoPasswordHash)
    /\ last' = Did("requestToggleSudo", c,
                   requestToggleSudoResult(sessions, c, now, sudoPasswordHash).success, FALSE)
    /\ UNCHANGED <<dashboardPasswordHash, sudoPasswordHash, now, pending, handlerVars, vaultVars, shellVars, concVars>>

\* auth:verify-password, up to the await on bcrypt.compare: verify, then setSudo(true).
VerifyPassword(c, password) ==
    /\ pending = NoPending
    /\ IF sudoPasswordHash = Null
       THEN /\ sessions' = setSudo(sessions, c, TRUE, now)
            /\ last' = Did("verify", c, verifySudoPassword(password, sudoPasswordHash), FALSE)
            /\ UNCHANGED pending
       ELSE /\ pending' = [op |-> "verify", c |-> c,
                           valid |-> verifySudoPassword(password, sudoPasswordHash)]
            /\ last' = Did("verifyAwait", c, FALSE, FALSE)
            /\ UNCHANGED sessions
    /\ UNCHANGED <<dashboardPasswordHash, sudoPasswordHash, now, handlerVars, vaultVars, shellVars, concVars>>

\* auth:verify-password, after the await.
VerifyResume(c) ==
    /\ pending.op = "verify" /\ pending.c = c
    /\ pending' = NoPending
    /\ sessions' = IF pending.valid
                   THEN setSudo(sessions, c, TRUE, now)
                   ELSE sessions
    /\ last' = Did("verify", c, pending.valid, FALSE)
    /\ UNCHANGED <<dashboardPasswordHash, sudoPasswordHash, now, handlerVars, vaultVars, shellVars, concVars>>

RefreshSession(c) ==
    /\ sessions' = refreshSession(sessions, c, now)
    /\ last' = Did("refreshSession", c, TRUE, FALSE)
    /\ UNCHANGED <<dashboardPasswordHash, sudoPasswordHash, now, pending, handlerVars, vaultVars, shellVars, concVars>>

\* A gate check: isAuthenticated(socketId)
IsAuthenticated(c) ==
    /\ sessions' = isAuthenticatedTable(sessions, c, now, dashboardPasswordHash)
    /\ last' = Did("isAuthenticated", c,
                   isAuthenticated(sessions, c, now, dashboardPasswordHash), FALSE)
    /\ UNCHANGED <<dashboardPasswordHash, sudoPasswordHash, now, pending, handlerVars, vaultVars, shellVars, concVars>>

\* A gate check: isSudo(socketId)
IsSudo(c) ==
    /\ sessions' = getSession(sessions, c, now)
    /\ last' = Did("isSudo", c, isSudo(sessions, c, now), FALSE)
    /\ UNCHANGED <<dashboardPasswordHash, sudoPasswordHash, now, pending, handlerVars, vaultVars, shellVars, concVars>>

\* ------------------------------------------------------------------ auth.json
\* What storage/auth.json may hold: nothing, text that JSON.parse rejects, or
\* an object; an object is a record of the fields it has.
NoFile == [kind |-> "absent"]
Corrupt == [kind |-> "corrupt"]
Json(data) == [kind |-> "json", data |-> data]

\* rawData.field; a missing field and null are both falsy.
Field(data, f) == IF f \in DOMAIN data THEN data[f] ELSE Null
Flag(data, f) == IF f \in DOMAIN data THEN data[f] ELSE FALSE

\* The fields of a fresh AuthService.
Defaults ==
    [dashboardPasswordHash |-> Null, sudoPasswordHash |-> Null, sudoEnabled |-> FALSE]

load_PreferenceSkipsPassword(file) ==
    IF file.kind # "json" THEN Defaults
    ELSE [dashboardPasswordHash |->
              IF Field(file.data, "dashboardPasswordHash") # Null
              THEN file.data.dashboardPasswordHash ELSE Field(file.data, "passwordHash"),
          sudoPasswordHash |->
              IF Flag(file.data, "sudoEnabled") THEN Null
              ELSE IF Field(file.data, "dashboardPasswordHash") # Null
                   THEN Field(file.data, "sudoPasswordHash")
                   ELSE Field(file.data, "passwordHash"),
          sudoEnabled |-> Flag(file.data, "sudoEnabled")]

load_NoMigration(file) ==
    IF file.kind # "json" THEN Defaults
    ELSE [dashboardPasswordHash |-> Field(file.data, "dashboardPasswordHash"),
          sudoPasswordHash      |-> Field(file.data, "sudoPasswordHash"),
          sudoEnabled           |-> Flag(file.data, "sudoEnabled")]

\* load(): the fields after the constructor has read the file. A missing file
\* is skipped and a parse error is caught, both leave the defaults.
load(file) ==
    IF file.kind # "json" THEN Defaults
    ELSE LET rawData == file.data
         IN  IF Field(rawData, "passwordHash") # Null
                /\ Field(rawData, "dashboardPasswordHash") = Null
             THEN [dashboardPasswordHash |-> rawData.passwordHash,
                   sudoPasswordHash      |-> rawData.passwordHash,
                   sudoEnabled           |-> Flag(rawData, "sudoEnabled")]
             ELSE [dashboardPasswordHash |-> Field(rawData, "dashboardPasswordHash"),
                   sudoPasswordHash      |-> Field(rawData, "sudoPasswordHash"),
                   sudoEnabled           |-> Flag(rawData, "sudoEnabled")]

\* What fs.writeFileSync may do: replace the file, throw before touching it, or
\* throw after truncating it. save() catches the throw and logs it.
WriteOutcomes == {"written", "unchanged", "truncated"}

\* save(): the file after the call.
save(file, dash, sudo, enabled, outcome) ==
    IF outcome = "written"
    THEN Json([dashboardPasswordHash |-> dash, sudoPasswordHash |-> sudo,
               sudoEnabled |-> enabled])
    ELSE IF outcome = "truncated" THEN Corrupt ELSE file

SetDashboardPassword_EndsSessions(password, outcome) ==
    /\ dashboardPasswordHash' = newHash(password)
    /\ disk' = save(disk, dashboardPasswordHash', sudoPasswordHash, sudoEnabled, outcome)
    /\ sessions' = <<>>
    /\ last' = Did("setDashboardPassword", NoOne, TRUE, FALSE)
    /\ UNCHANGED <<sudoPasswordHash, now, pending, sudoEnabled, handlerVars, shellVars, concVars>>

\* setDashboardPassword: the hash is replaced after the await on bcrypt.hash,
\* save() follows, and the promise resolves whatever save() met.
SetDashboardPassword(password, outcome) ==
    /\ dashboardPasswordHash' = newHash(password)
    /\ disk' = save(disk, dashboardPasswordHash', sudoPasswordHash, sudoEnabled, outcome)
    /\ last' = Did("setDashboardPassword", NoOne, TRUE, FALSE)
    /\ UNCHANGED <<sessions, sudoPasswordHash, now, pending, sudoEnabled, handlerVars, shellVars, concVars>>

SetSudoPassword(password, outcome) ==
    /\ sudoPasswordHash' = newHash(password)
    /\ disk' = save(disk, dashboardPasswordHash, sudoPasswordHash', sudoEnabled, outcome)
    /\ last' = Did("setSudoPassword", NoOne, TRUE, FALSE)
    /\ UNCHANGED <<sessions, dashboardPasswordHash, now, pending, sudoEnabled,
                   handlerVars, shellVars, concVars>>

\* The process is started again: a fresh AuthService, its constructor runs load().
Restart ==
    /\ sessions' = <<>>
    /\ pending' = NoPending
    /\ dashboardPasswordHash' = load(disk).dashboardPasswordHash
    /\ sudoPasswordHash' = load(disk).sudoPasswordHash
    /\ sudoEnabled' = load(disk).sudoEnabled
    /\ last' = Did("load", NoOne, TRUE, FALSE)
    /\ UNCHANGED <<now, disk, handlerVars, shellVars, concVars>>

\* The setInterval sweep of the constructor.
CleanupSessions ==
    /\ sessions' = cleanupSessions(sessions, now)
    /\ last' = Did("cleanupSessions", NoOne, TRUE, FALSE)
    /\ UNCHANGED <<dashboardPasswordHash, sudoPasswordHash, now, pending, handlerVars, vaultVars, shellVars, concVars>>

RemoveSession(c) ==
    /\ sessions' = removeSession(sessions, c)
    /\ last' = Did("removeSession", c, TRUE, FALSE)
    /\ UNCHANGED <<dashboardPasswordHash, sudoPasswordHash, now, pending, handlerVars, vaultVars, shellVars, concVars>>

\* socket.on('disconnect'): the handler logs the socket id and does nothing else.
Disconnect(c) ==
    /\ last' = Did("disconnect", c, TRUE, FALSE)
    /\ UNCHANGED <<sessions, dashboardPasswordHash, sudoPasswordHash, now, pending, handlerVars, vaultVars, shellVars, concVars>>

\* Time passes.
Tick ==
    /\ now < MaxTime
    /\ now' = now + 1
    /\ last' = Did("tick", NoOne, TRUE, FALSE)
    /\ UNCHANGED <<sessions, dashboardPasswordHash, sudoPasswordHash, pending, handlerVars, vaultVars, shellVars, concVars>>

\* execSudo(command) called while serving connection c: `sudo -n command` is
\* spawned whatever the session.
ExecSudo(c) ==
    /\ last' = Did("execSudo", c, TRUE, TRUE)
    /\ UNCHANGED <<sessions, dashboardPasswordHash, sudoPasswordHash, now, pending, handlerVars, vaultVars, shellVars, concVars>>

\* FileService.deleteFile(filePath, useSudo) called while serving connection c.
DeleteFile(c, useSudo) ==
    /\ last' = Did("deleteFile", c, TRUE, useSudo)
    /\ UNCHANGED <<sessions, dashboardPasswordHash, sudoPasswordHash, now, pending, handlerVars, vaultVars, shellVars, concVars>>

\* The state after the constructor: load() has read an auth.json that an
\* earlier save() of this service wrote.
Init ==
    /\ sessions = <<>>
    /\ dashboardPasswordHash \in Hashes \cup {Null}
    /\ sudoPasswordHash \in Hashes \cup {Null}
    /\ sudoEnabled = FALSE
    /\ disk = save(NoFile, dashboardPasswordHash, sudoPasswordHash, sudoEnabled, "written")
    /\ now = 1
    /\ pending = NoPending
    /\ last = [op |-> "init", c |-> NoOne, ok |-> TRUE, ran |-> FALSE, pre |-> "none"]
    /\ sudoMode = FALSE
    /\ passwordHash = Null
    /\ handled = Idle
    /\ filePath = <<>>
    /\ spawned = NoShell
    /\ ConcIdle

Next ==
    \/ \E c \in Conns, p \in Passwords : Login(c, p)
    \/ \E c \in Conns : LoginResume(c)
    \/ \E c \in Conns : Logout(c)
    \/ \E c \in Conns : RequestToggleSudo(c)
    \/ \E c \in Conns, p \in Passwords : VerifyPassword(c, p)
    \/ \E c \in Conns : VerifyResume(c)
    \/ \E c \in Conns : RefreshSession(c)
    \/ \E c \in Conns : IsAuthenticated(c)
    \/ \E c \in Conns : IsSudo(c)
    \/ \E p \in NewPasswords : SetDashboardPassword(p, "written")
    \/ \E p \in NewPasswords : SetSudoPassword(p, "written")
    \/ CleanupSessions
    \/ \E c \in Conns : RemoveSession(c)
    \/ \E c \in Conns : Disconnect(c)
    \/ Tick
    \/ \E c \in Conns : ExecSudo(c)
    \/ \E c \in Conns, u \in BOOLEAN : DeleteFile(c, u)

Spec == Init /\ [][Next]_vars

\* The same service with the wall clock advancing: Date.now() never stands
\* still. LiveNext is Next without ExecSudo, DeleteFile and Disconnect, which
\* read and write nothing of the session table, the hashes or the clock.
LiveNext ==
    \/ \E c \in Conns, p \in Passwords : Login(c, p)
    \/ \E c \in Conns : LoginResume(c)
    \/ \E c \in Conns : Logout(c)
    \/ \E c \in Conns : RequestToggleSudo(c)
    \/ \E c \in Conns, p \in Passwords : VerifyPassword(c, p)
    \/ \E c \in Conns : VerifyResume(c)
    \/ \E c \in Conns : RefreshSession(c)
    \/ \E c \in Conns : IsAuthenticated(c)
    \/ \E c \in Conns : IsSudo(c)
    \/ \E p \in NewPasswords : SetDashboardPassword(p, "written")
    \/ \E p \in NewPasswords : SetSudoPassword(p, "written")
    \/ CleanupSessions
    \/ \E c \in Conns : RemoveSession(c)
    \/ Tick

LiveSpec == Init /\ [][LiveNext]_vars /\ WF_vars(Tick)

\* checkSession(socketId): the status record sent as auth:session-check.
checkSession(s, c, t, dash, enabled) ==
    LET session == getSession(s, c, t)[c]
    IN  [needsPassword   |-> dash # Null /\ ~session.isAuthenticated,
         sudoWasEnabled  |-> enabled,
         isAuthenticated |-> session.isAuthenticated]

\* The client's handler of auth:session-check: the elevated state it shows.
clientIsSudo(data) == data.sudoWasEnabled /\ data.isAuthenticated

\* ------------------------------------------------------------------ the vault file
\* VaultSpec follows auth.json across saves that may fail and across restarts.
\* The file found at the first start was written by any version of the
\* service: {passwordHash}, {passwordHash, sudoEnabled}, or the two-tier record.
LegacyHashes == {Hash(p) : p \in Passwords \ {""}}

DiskContents ==
    {NoFile, Corrupt}
    \cup {Json([passwordHash |-> h]) : h \in LegacyHashes \cup {Null}}
    \cup {Json([passwordHash |-> h, sudoEnabled |-> e]) :
             h \in LegacyHashes \cup {Null}, e \in BOOLEAN}
    \cup {Json([dashboardPasswordHash |-> d, sudoPasswordHash |-> u, sudoEnabled |-> e]) :
             d \in Hashes \cup {Null}, u \in Hashes \cup {Null}, e \in BOOLEAN}

VaultInit ==
    /\ disk \in DiskContents
    /\ dashboardPasswordHash = load(disk).dashboardPasswordHash
    /\ sudoPasswordHash = load(disk).sudoPasswordHash
    /\ sudoEnabled = load(disk).sudoEnabled
    /\ sessions = <<>>
    /\ now = 1
    /\ pending = NoPending
    /\ last = [op |-> "load", c |-> NoOne, ok |-> TRUE, ran |-> FALSE, pre |-> "none"]
    /\ sudoMode = FALSE
    /\ passwordHash = Null
    /\ handled = Idle
    /\ filePath = <<>>
    /\ spawned = NoShell
    /\ ConcIdle

VaultNext ==
    \/ \E p \in NewPasswords, o \in WriteOutcomes : SetDashboardPassword(p, o)
    \/ \E p \in NewPasswords, o \in WriteOutcomes : SetSudoPassword(p, o)
    \/ Restart
    \/ \E c \in Conns, p \in Passwords : Login(c, p)
    \/ \E c \in Conns : LoginResume(c)
    \/ \E c \in Conns, p \in Passwords : VerifyPassword(c, p)
    \/ \E c \in Conns : VerifyResume(c)

VaultSpec == VaultInit /\ [][VaultNext]_vars

\* ------------------------------------------------------------------ index.ts handlers
\* index.ts calls the single-flag AuthService: one sudoMode and one passwordHash
\* for the whole process, isSudo() without a connection.
AllHashes == {Hash(p) : p \in Passwords \ {""}}

verifyPassword_AlwaysTrue(password, hash) == TRUE

\* verifyPassword: the value the promise resolves to.
verifyPassword(password, hash) ==
    IF hash = Null THEN TRUE ELSE Compare(password, hash)

\* What a handler did with a request of connection c while isSudo() was sudo.
Handled(event, c, sudo, rejected, effects, emitted) ==
    [event |-> event, c |-> c, sudo |-> sudo, rejected |-> rejected,
     effects |-> effects, emitted |-> emitted]

\* authService.isSudo() as a handler asks it while serving connection b: the
\* call carries no socket id, the answer is the one flag.
HandlerIsSudo(b) == sudoMode

\* The sockets that receive the auth:status of a handled request: the toggle
\* and verify handlers send it with io.emit, to every connected socket.
StatusRecipients(h) ==
    IF "auth:status" \notin h.emitted THEN {}
    ELSE IF h.event \in {"auth:request-toggle", "auth:verify-password"} THEN Conns
    ELSE {h.c}

\* socket.on('auth:request-toggle')
AuthRequestToggle(c) ==
    /\ IF sudoMode
       THEN /\ sudoMode' = FALSE
            /\ handled' = Handled("auth:request-toggle", c, sudoMode, FALSE, {}, {"auth:status"})
       ELSE IF passwordHash = Null
            THEN /\ sudoMode' = TRUE
                 /\ handled' = Handled("auth:request-toggle", c, sudoMode, FALSE, {},
                                       {"auth:status"})
            ELSE /\ sudoMode' = sudoMode
                 /\ handled' = Handled("auth:request-toggle", c, sudoMode, FALSE, {},
                                       {"auth:require-password"})
    /\ UNCHANGED <<passwordHash, coreVars, vaultVars, shellVars, concVars>>

\* socket.on('auth:verify-password')
AuthVerifyPassword(c, password) ==
    /\ IF verifyPassword(password, passwordHash)
       THEN /\ sudoMode' = TRUE
            /\ handled' = Handled("auth:verify-password", c, sudoMode, FALSE, {},
                                  {"auth:status", "auth:verify-success"})
       ELSE /\ sudoMode' = sudoMode
            /\ handled' = Handled("auth:verify-password", c, sudoMode, FALSE, {},
                                  {"auth:verify-fail"})
    /\ UNCHANGED <<passwordHash, coreVars, vaultVars, shellVars, concVars>>

\* socket.on('auth:set-password')
AuthSetPassword(c, password, oldPassword) ==
    /\ IF passwordHash # Null /\ ~verifyPassword(oldPassword, passwordHash)
       THEN /\ passwordHash' = passwordHash
            /\ handled' = Handled("auth:set-password", c, sudoMode, FALSE, {},
                                  {"auth:set-password-error"})
       ELSE /\ passwordHash' = newHash(password)
            /\ handled' = Handled("auth:set-password", c, sudoMode, FALSE, {},
                                  IF newHash(password) = Null
                                  THEN {"auth:set-password-success", "auth:needs-setup"}
                                  ELSE {"auth:set-password-success"})
    /\ UNCHANGED <<sudoMode, coreVars, vaultVars, shellVars, concVars>>

\* socket.on('term:input'): terminalService.write, no gate; the pty is written
\* when the terminal id names a running session.
TermInput(c, running) ==
    /\ handled' = Handled("term:input", c, sudoMode, FALSE,
                          IF running THEN {"terminal.write"} ELSE {}, {})
    /\ UNCHANGED <<sudoMode, passwordHash, coreVars, vaultVars, shellVars, concVars>>

ControlActions == {"reboot", "shutdown", "update"}

\* socket.on('system:control')
SystemControl(c, action) ==
    /\ IF ~sudoMode
       THEN handled' = Handled("system:control", c, sudoMode, TRUE, {}, {})
       ELSE handled' = Handled("system:control", c, sudoMode, FALSE, {"system." \o action},
                               IF action = "update" THEN {"system:update-status"} ELSE {})
    /\ UNCHANGED <<sudoMode, passwordHash, coreVars, vaultVars, shellVars, concVars>>

\* socket.on('files:delete')
FilesDelete(c) ==
    /\ IF ~sudoMode
       THEN handled' = Handled("files:delete", c, sudoMode, TRUE, {}, {})
       ELSE handled' = Handled("files:delete", c, sudoMode, FALSE, {"file.delete"},
                               {"files:list-data"})
    /\ UNCHANGED <<sudoMode, passwordHash, coreVars, vaultVars, shellVars, concVars>>

Recipes == {"update", "fix-proton-hang"}

\* socket.on('ujust:execute'): the sudo check is commented out.
UjustExecute(c, recipe) ==
    /\ handled' = Handled("ujust:execute", c, sudoMode, FALSE, {"ujust." \o recipe},
                          {"ujust:status"})
    /\ UNCHANGED <<sudoMode, passwordHash, coreVars, vaultVars, shellVars, concVars>>

\* socket.on('package:install')
PackageInstall(c) ==
    /\ IF ~sudoMode
       THEN handled' = Handled("package:install", c, sudoMode, TRUE, {}, {})
       ELSE handled' = Handled("package:install", c, sudoMode, FALSE, {"package.install"},
                               {"package:status"})
    /\ UNCHANGED <<sudoMode, passwordHash, coreVars, vaultVars, shellVars, concVars>>

\* socket.on('package:uninstall')
PackageUninstall(c) ==
    /\ IF ~sudoMode
       THEN handled' = Handled("package:uninstall", c, sudoMode, TRUE, {}, {})
       ELSE handled' = Handled("package:uninstall", c, sudoMode, FALSE, {"package.uninstall"},
                               {"package:status"})
    /\ UNCHANGED <<sudoMode, passwordHash, coreVars, vaultVars, shellVars, concVars>>

\* The state after the constructor of the single-flag service.
HandlerInit ==
    /\ sessions = <<>>
    /\ dashboardPasswordHash = Null
    /\ sudoPasswordHash = Null
    /\ now = 1
    /\ pending = NoPending
    /\ last = [op |-> "init", c |-> NoOne, ok |-> TRUE, ran |-> FALSE, pre |-> "none"]
    /\ sudoMode = FALSE
    /\ passwordHash \in AllHashes \cup {Null}
    /\ handled = Idle
    /\ filePath = <<>>
    /\ spawned = NoShell
    /\ sudoEnabled = FALSE
    /\ disk = NoFile
    /\ ConcIdle

HandlerNext ==
    \/ \E c \in Conns : AuthRequestToggle(c)
    \/ \E c \in Conns, p \in Passwords : AuthVerifyPassword(c, p)
    \/ \E c \in Conns, p \in Passwords, o \in Passwords : AuthSetPassword(c, p, o)
    \/ \E c \in Conns, r \in BOOLEAN : TermInput(c, r)
    \/ \E c \in Conns, a \in ControlActions : SystemControl(c, a)
    \/ \E c \in Conns : FilesDelete(c)
    \/ \E c \in Conns, r \in Recipes : UjustExecute(c, r)
    \/ \E c \in Conns : PackageInstall(c)
    \/ \E c \in Conns : PackageUninstall(c)

HandlerSpec == HandlerInit /\ [][HandlerNext]_vars

\* ------------------------------------------------------------------ escalated file commands
\* FileService builds each escalated command as text and hands it to a shell.
\* Text is a sequence of one-character strings.
MaxPathLen == 3

\* The characters a client's path is made of: a letter, a slash, and what a
\* shell treats specially.
PathChars == {"a", "/", "'", ";", " ", "\\"}

Paths == UNION {[1..n -> PathChars] : n \in 0..MaxPathLen}

Escape_None(text) == text

\* text.replace(/'/g, "'\\''")
RECURSIVE EscapeTo(_, _)
EscapeTo(text, i) ==
    IF i = 0 THEN <<>>
    ELSE EscapeTo(text, i - 1) \o (IF text[i] = "'"
                                   THEN <<"'", "\\", "'", "'">>
                                   ELSE <<text[i]>>)

Escape(text) == IF Len(text) = 0 THEN <<>> ELSE EscapeTo(text, Len(text))

\* `rm -rf '${safePath}'`
RmCommand(path) ==
    <<"r", "m", " ", "-", "r", "f", " ", "'">> \o Escape(path) \o <<"'">>

\* `test -d '${safePath}'`
TestCommand(path) ==
    <<"t", "e", "s", "t", " ", "-", "d", " ", "'">> \o Escape(path) \o <<"'">>

\* execSudo: `sudo -n ${command}`
SudoLine(command) == <<"s", "u", "d", "o", " ", "-", "n", " ">> \o command

\* execAsOwner: `sudo -u ${this.owner} bash -c '${command.replace(/'/g, "'\\''")}'`,
\* the owner's login name being "o".
OwnerLine(command) ==
    <<"s", "u", "d", "o", " ", "-", "u", " ", "o", " ",
      "b", "a", "s", "h", " ", "-", "c", " ", "'">> \o Escape(command) \o <<"'">>

\* What a shell makes of a line it cannot parse: it runs nothing.
SyntaxError == << << <<"syntax error">> >> >>

\* The shell's reading of a line, as exec and execSync (/bin/sh -c) and
\* bash -c do it: words split at unquoted blanks, commands at unquoted
\* semicolons, everything literal between single quotes, a backslash outside
\* quotes taking the next character literally. ShStep is the reader's state
\* after one more character.
ShStart ==
    [mode |-> "plain", word |-> <<>>, inWord |-> FALSE, words |-> <<>>, cmds |-> <<>>]

ShWords(st) == IF st.inWord THEN Append(st.words, st.word) ELSE st.words

ShStep(st, ch) ==
    CASE st.mode = "quote" ->
           IF ch = "'"
           THEN [st EXCEPT !.mode = "plain", !.inWord = TRUE]
           ELSE [st EXCEPT !.word = Append(st.word, ch)]
      [] st.mode = "escape" ->
           [st EXCEPT !.mode = "plain", !.word = Append(st.word, ch)]
      [] OTHER ->
           IF ch = "'" THEN [st EXCEPT !.mode = "quote", !.inWord = TRUE]
           ELSE IF ch = "\\" THEN [st EXCEPT !.mode = "escape", !.inWord = TRUE]
           ELSE IF ch = " "
                THEN [st EXCEPT !.word = <<>>, !.inWord = FALSE, !.words = ShWords(st)]
           ELSE IF ch = ";"
                THEN [st EXCEPT !.word = <<>>, !.inWord = FALSE, !.words = <<>>,
                                !.cmds = IF ShWords(st) = <<>> THEN st.cmds
                                         ELSE Append(st.cmds, ShWords(st))]
           ELSE [st EXCEPT !.word = Append(st.word, ch), !.inWord = TRUE]

\* The commands read when the line has ended in reader state st, each a
\* sequence of words; a line that ends inside a quote or on a backslash is a
\* syntax error.
ShCommands(st) ==
    IF st.mode # "plain" THEN SyntaxError
    ELSE IF ShWords(st) = <<>> THEN st.cmds
    ELSE Append(st.cmds, ShWords(st))

\* sudo -n <argv>: the command sudo runs as root.
AsRoot(argv) == SubSeq(argv, 3, Len(argv))

\* A shell started on a line for a file operation.
Spawn(op, line) == [op |-> op, stage |-> "sh", rest |-> line, st |-> ShStart,
                    after |-> <<>>, cmds |-> <<>>]

\* FileService.deleteFile(filePath, true): execSudo hands the line to exec,
\* which starts /bin/sh -c on it.
RunDeleteFile ==
    /\ spawned.stage \in {"idle", "done"}
    /\ spawned' = Spawn("deleteFile", SudoLine(RmCommand(filePath)))
    /\ UNCHANGED <<filePath, coreVars, handlerVars, vaultVars, concVars>>

\* FileService.listAsOwner(dirPath), its directory test: execAsOwner hands the
\* line to execSync, which starts /bin/sh -c on it.
RunListAsOwner ==
    /\ spawned.stage \in {"idle", "done"}
    /\ spawned' = Spawn("listAsOwner", OwnerLine(TestCommand(filePath)))
    /\ UNCHANGED <<filePath, coreVars, handlerVars, vaultVars, concVars>>

\* The shell reads the next character of its line.
ShReadChar ==
    /\ spawned.stage \in {"sh", "bash"}
    /\ spawned.rest # <<>>
    /\ spawned' = [spawned EXCEPT !.rest = Tail(spawned.rest),
                                  !.st = ShStep(spawned.st, Head(spawned.rest))]
    /\ UNCHANGED <<filePath, coreVars, handlerVars, vaultVars, concVars>>

\* The line has ended. /bin/sh runs its commands: each command of a deleteFile
\* line is sudo -n ..., run as root; the first command of a listAsOwner line is
\* sudo -u o bash -c <text>, and bash reads <text> as a line of its own before
\* /bin/sh goes on with the commands that follow. bash runs what it has read.
ShEndOfLine ==
    /\ spawned.stage \in {"sh", "bash"}
    /\ spawned.rest = <<>>
    /\ LET cmds == ShCommands(spawned.st)
       IN  spawned' =
             IF cmds = SyntaxError
             THEN [spawned EXCEPT !.stage = "done", !.cmds = SyntaxError]
             ELSE IF spawned.stage = "bash"
             THEN [spawned EXCEPT !.stage = "done", !.cmds = cmds \o spawned.after]
             ELSE IF spawned.op = "deleteFile"
             THEN [spawned EXCEPT !.stage = "done",
                                  !.cmds = [i \in 1..Len(cmds) |-> AsRoot(cmds[i])]]
             ELSE IF cmds = <<>> \/ Len(cmds[1]) # 6
             THEN [spawned EXCEPT !.stage = "done", !.cmds = SyntaxError]
             ELSE [spawned EXCEPT !.stage = "bash", !.rest = cmds[1][6], !.st = ShStart,
                                  !.after = SubSeq(cmds, 2, Len(cmds))]
    /\ UNCHANGED <<filePath, coreVars, handlerVars, vaultVars, concVars>>

ShellInit ==
    /\ filePath \in Paths
    /\ spawned = NoShell
    /\ sessions = <<>>
    /\ dashboardPasswordHash = Null
    /\ sudoPasswordHash = Null
    /\ now = 1
    /\ pending = NoPending
    /\ last = [op |-> "init", c |-> NoOne, ok |-> TRUE, ran |-> FALSE, pre |-> "none"]
    /\ sudoMode = FALSE
    /\ passwordHash = Null
    /\ handled = Idle
    /\ sudoEnabled = FALSE
    /\ disk = NoFile
    /\ ConcIdle

ShellNext ==
    \/ RunDeleteFile
    \/ RunListAsOwner
    \/ ShReadChar
    \/ ShEndOfLine

ShellSpec == ShellInit /\ [][ShellNext]_vars

\* ------------------------------------------------------------------ the event loop

MaxQueue == 2

EventKinds == {"query", "sudo", "owner"}

Event(c, k) == [c |-> c, kind |-> k]

InInbox(e) == \E i \in 1..Len(inbox) : inbox[i] = e

\* A socket message arrives and waits for the loop.  The operating system
\* queues it whether or not the loop's thread is free.
Arrive(c, k) ==
    /\ Len(inbox) < MaxQueue
    /\ k # "query" => Event(c, k) \notin children /\ ~InInbox(Event(c, k))
    /\ inbox' = Append(inbox, Event(c, k))
    /\ UNCHANGED <<children, blocked, served, runs, requests, pushVars, coreVars, handlerVars, vaultVars, shellVars>>

\* The loop dispatches a request whose handler only asks the session state.
DispatchQuery ==
    /\ ~blocked
    /\ inbox # <<>>
    /\ Head(inbox).kind = "query"
    /\ inbox' = Tail(inbox)
    /\ served' = Head(inbox)
    /\ UNCHANGED <<children, blocked, runs, requests, pushVars, coreVars, handlerVars, vaultVars, shellVars>>

\* execSudo: exec() starts the child and returns; the promise settles in the
\* child's exit callback.
execSudo ==
    /\ ~blocked
    /\ inbox # <<>>
    /\ Head(inbox).kind = "sudo"
    /\ inbox' = Tail(inbox)
    /\ served' = Head(inbox)
    /\ children' = children \cup {Head(inbox)}
    /\ UNCHANGED <<blocked, runs, requests, pushVars, coreVars, handlerVars, vaultVars, shellVars>>

\* The exit callback of a child started by execSudo, run by the loop.
execSudoCallback(e) ==
    /\ ~blocked
    /\ e \in children
    /\ e.kind = "sudo"
    /\ children' = children \ {e}
    /\ UNCHANGED <<inbox, blocked, served, runs, requests, pushVars, coreVars, handlerVars, vaultVars, shellVars>>

\* execAsOwner: execSync() starts the child and does not return to the loop
\* before the child has exited or the 30 s timeout has killed it.
execAsOwner ==
    /\ ~blocked
    /\ inbox # <<>>
    /\ Head(inbox).kind = "owner"
    /\ inbox' = Tail(inbox)
    /\ served' = Head(inbox)
    /\ children' = children \cup {Head(inbox)}
    /\ blocked' = TRUE
    /\ UNCHANGED <<runs, requests, pushVars, coreVars, handlerVars, vaultVars, shellVars>>

\* execSync returns: the child of execAsOwner exited or timed out.
execAsOwnerReturn(e) ==
    /\ blocked
    /\ e \in children
    /\ e.kind = "owner"
    /\ children' = children \ {e}
    /\ blocked' = FALSE
    /\ UNCHANGED <<inbox, served, runs, requests, pushVars, coreVars, handlerVars, vaultVars, shellVars>>

\* One turn of the loop: the next queued request is handed to its handler.
Dispatch == DispatchQuery \/ execSudo \/ execAsOwner

LoopInit ==
    /\ ConcIdle
    /\ sessions = <<>>
    /\ dashboardPasswordHash = Null
    /\ sudoPasswordHash = Null
    /\ now = 1
    /\ pending = NoPending
    /\ last = [op |-> "init", c |-> NoOne, ok |-> TRUE, ran |-> FALSE, pre |-> "none"]
    /\ sudoMode = FALSE
    /\ passwordHash = Null
    /\ handled = Idle
    /\ filePath = <<>>
    /\ spawned = NoShell
    /\ sudoEnabled = FALSE
    /\ disk = NoFile

LoopNext ==
    \/ \E c \in Conns, k \in EventKinds : Arrive(c, k)
    \/ DispatchQuery
    \/ execSudo
    \/ execAsOwner
    \/ \E c \in Conns : execSudoCallback(Event(c, "sudo"))
    \/ \E c \in Conns : execAsOwnerReturn(Event(c, "owner"))

LoopSpec == LoopInit /\ [][LoopNext]_vars

\* ------------------------------------------------------------------ two runs
\* PrefSpec runs two services side by side.  They start from auth.json files
\* that differ in sudoEnabled only, and every operation is applied to both.

\* The file with its sudoEnabled field set to e.
WithPreference(file, e) ==
    IF file.kind # "json" THEN file
    ELSE Json([f \in DOMAIN file.data \cup {"sudoEnabled"} |->
                  IF f = "sudoEnabled" THEN e ELSE file.data[f]])

\* A service after its constructor has run load() on the file.
Started(file) ==
    [sessions |-> <<>>,
     dashboardPasswordHash |-> load(file).dashboardPasswordHash,
     sudoPasswordHash |-> load(file).sudoPasswordHash,
     sudoEnabled |-> load(file).sudoEnabled,
     disk |-> file,
     pending |-> NoPending]

Operations ==
    {"login", "resume", "logout", "requestToggleSudo", "verify", "refreshSession",
     "isAuthenticated", "isSudo", "cleanupSessions", "removeSession",
     "setDashboardPassword", "setSudoPassword", "load"}

\* The service st after operation op of connection c with argument p at time t.
Apply(st, op, c, p, t) ==
    CASE op = "login" ->
           IF st.dashboardPasswordHash = Null
           THEN [st EXCEPT !.sessions = setAuthenticated(@, c, TRUE, t)]
           ELSE [st EXCEPT !.pending = [op |-> "login", c |-> c,
                                        valid |-> Compare(p, st.dashboardPasswordHash)]]
      [] op = "verify" ->
           IF st.sudoPasswordHash = Null
           THEN [st EXCEPT !.sessions = setSudo(@, c, TRUE, t)]
           ELSE [st EXCEPT !.pending = [op |-> "verify", c |-> c,
                                        valid |-> verifySudoPassword(p, st.sudoPasswordHash)]]
      [] op = "resume" ->
           IF st.pending.op = "none" THEN st
           ELSE [st EXCEPT !.pending = NoPending,
                           !.sessions = IF ~st.pending.valid THEN @
                                        ELSE IF st.pending.op = "login"
                                             THEN setAuthenticated(@, st.pending.c, TRUE, t)
                                             ELSE setSudo(@, st.pending.c, TRUE, t)]
      [] op = "logout" -> [st EXCEPT !.sessions = setAuthenticated(@, c, FALSE, t)]
      [] op = "requestToggleSudo" ->
           [st EXCEPT !.sessions = requestToggleSudo(@, c, t, st.sudoPasswordHash)]
      [] op = "refreshSession" -> [st EXCEPT !.sessions = refreshSession(@, c, t)]
      [] op = "isAuthenticated" ->
           [st EXCEPT !.sessions = isAuthenticatedTable(@, c, t, st.dashboardPasswordHash)]
      [] op = "isSudo" -> [st EXCEPT !.sessions = getSession(@, c, t)]
      [] op = "cleanupSessions" -> [st EXCEPT !.sessions = cleanupSessions(@, t)]
      [] op = "removeSession" -> [st EXCEPT !.sessions = removeSession(@, c)]
      [] op = "setDashboardPassword" ->
           [st EXCEPT !.dashboardPasswordHash = newHash(p),
                      !.disk = save(@, newHash(p), st.sudoPasswordHash,
                                    st.sudoEnabled, "written")]
      [] op = "setSudoPassword" ->
           [st EXCEPT !.sudoPasswordHash = newHash(p),
                      !.disk = save(@, st.dashboardPasswordHash, newHash(p),
                                    st.sudoEnabled, "written")]
      [] op = "load" -> Started(st.disk)

\* The same operation reaches both services.  A login or an elevation is
\* taken up when no comparison is in flight, and resume ends the one that is.
Both(op, c, p) ==
    /\ op \in {"login", "verify"} => \A r \in DOMAIN runs : runs[r].pending = NoPending
    /\ op = "resume" => \E r \in DOMAIN runs : runs[r].pending # NoPending
    /\ runs' = [r \in DOMAIN runs |-> Apply(runs[r], op, c, p, now)]
    /\ UNCHANGED <<sessions, dashboardPasswordHash, sudoPasswordHash, now, pending, last,
                   loopVars, requests, pushVars, handlerVars, vaultVars, shellVars>>

PrefInit ==
    /\ \E file \in DiskContents :
          /\ file.kind = "json"
          /\ runs = <<Started(WithPreference(file, FALSE)),
                      Started(WithPreference(file, TRUE))>>
    /\ inbox = <<>>
    /\ children = {}
    /\ blocked = FALSE
    /\ served = NoEvent
    /\ requests = [c \in Conns |-> NoRequest]
    /\ subscriptions = <<>>
    /\ subsFile = <<>>
    /\ sends = [i \in SendIds |-> NoSend]
    /\ sessions = <<>>
    /\ dashboardPasswordHash = Null
    /\ sudoPasswordHash = Null
    /\ now = 1
    /\ pending = NoPending
    /\ last = [op |-> "init", c |-> NoOne, ok |-> TRUE, ran |-> FALSE, pre |-> "none"]
    /\ sudoMode = FALSE
    /\ passwordHash = Null
    /\ handled = Idle
    /\ filePath = <<>>
    /\ spawned = NoShell
    /\ sudoEnabled = FALSE
    /\ disk = NoFile

\* The operations, each applied to both services.
BothLogin(c, p) == Both("login", c, p)
BothVerify(c, p) == Both("verify", c, p)
BothResume == Both("resume", NoOne, "")
BothLogout(c) == Both("logout", c, "")
BothRequestToggleSudo(c) == Both("requestToggleSudo", c, "")
BothRefreshSession(c) == Both("refreshSession", c, "")
BothIsAuthenticated(c) == Both("isAuthenticated", c, "")
BothIsSudo(c) == Both("isSudo", c, "")
BothCleanupSessions == Both("cleanupSessions", NoOne, "")
BothRemoveSession(c) == Both("removeSession", c, "")
BothSetDashboardPassword(p) == Both("setDashboardPassword", NoOne, p)
BothSetSudoPassword(p) == Both("setSudoPassword", NoOne, p)
BothRestart == Both("load", NoOne, "")

PrefNext ==
    \/ \E c \in Conns, p \in Passwords : BothLogin(c, p)
    \/ \E c \in Conns, p \in Passwords : BothVerify(c, p)
    \/ BothResume
    \/ \E c \in Conns : BothLogout(c)
    \/ \E c \in Conns : BothRequestToggleSudo(c)
    \/ \E c \in Conns : BothRefreshSession(c)
    \/ \E c \in Conns : BothIsAuthenticated(c)
    \/ \E c \in Conns : BothIsSudo(c)
    \/ BothCleanupSessions
    \/ \E c \in Conns : BothRemoveSession(c)
    \/ \E p \in NewPasswords : BothSetDashboardPassword(p)
    \/ \E p \in NewPasswords : BothSetSudoPassword(p)
    \/ BothRestart
    \/ Tick

PrefSpec == PrefInit /\ [][PrefNext]_vars

\* ------------------------------------------------------------------ concurrent set-password
\* ChangeSpec follows the auth:set-password handler across its two awaits, one
\* request per connection.

Request(stage, password, valid, against) ==
    [stage |-> stage, password |-> password, valid |-> valid, against |-> against]

\* The handler up to its first await.  With a password set it awaits
\* verifyPassword(oldPassword), which compares against the hash of that
\* moment.  With none set it goes on to setPassword(password), which returns
\* for an empty password and awaits bcrypt.hash otherwise.
SetPasswordStart(c, password, oldPassword) ==
    /\ requests[c].stage = "idle"
    /\ IF passwordHash # Null
       THEN /\ requests' = [requests EXCEPT ![c] =
                   Request("verifying", password,
                           verifyPassword(oldPassword, passwordHash), passwordHash)]
            /\ UNCHANGED handled
       ELSE IF password = ""
       THEN /\ UNCHANGED requests
            /\ handled' = Handled("auth:set-password", c, sudoMode, FALSE, {},
                                  {"auth:set-password-success", "auth:needs-setup"})
       ELSE /\ requests' = [requests EXCEPT ![c] =
                   Request("hashing", password, TRUE, passwordHash)]
            /\ UNCHANGED handled
    /\ UNCHANGED <<passwordHash, sudoMode, loopVars, runs, pushVars, coreVars, vaultVars, shellVars>>

\* The handler after verifyPassword has resolved.
SetPasswordVerified(c) ==
    /\ requests[c].stage = "verifying"
    /\ IF ~requests[c].valid
       THEN /\ requests' = [requests EXCEPT ![c] = NoRequest]
            /\ handled' = Handled("auth:set-password", c, sudoMode, FALSE, {},
                                  {"auth:set-password-error"})
            /\ UNCHANGED passwordHash
       ELSE IF requests[c].password = ""
       THEN /\ requests' = [requests EXCEPT ![c] = NoRequest]
            /\ passwordHash' = Null
            /\ handled' = Handled("auth:set-password", c, sudoMode, FALSE, {},
                                  {"auth:set-password-success", "auth:needs-setup"})
       ELSE /\ requests' = [requests EXCEPT ![c].stage = "hashing"]
            /\ UNCHANGED <<passwordHash, handled>>
    /\ UNCHANGED <<sudoMode, loopVars, runs, pushVars, coreVars, vaultVars, shellVars>>

\* setPassword after bcrypt.hash has resolved: the hash is stored and the
\* handler reports success.
SetPasswordHashed(c) ==
    /\ requests[c].stage = "hashing"
    /\ requests' = [requests EXCEPT ![c] = NoRequest]
    /\ passwordHash' = Hash(requests[c].password)
    /\ handled' = Handled("auth:set-password", c, sudoMode, FALSE, {},
                          {"auth:set-password-success"})
    /\ UNCHANGED <<sudoMode, loopVars, runs, pushVars, coreVars, vaultVars, shellVars>>

\* The steps that store a hash in place of the current one.
Replaces(c) ==
    \/ SetPasswordHashed(c)
    \/ SetPasswordVerified(c) /\ requests[c].valid /\ requests[c].password = ""

ChangeInit ==
    /\ ConcIdle
    /\ sessions = <<>>
    /\ dashboardPasswordHash = Null
    /\ sudoPasswordHash = Null
    /\ now = 1
    /\ pending = NoPending
    /\ last = [op |-> "init", c |-> NoOne, ok |-> TRUE, ran |-> FALSE, pre |-> "none"]
    /\ sudoMode = FALSE
    /\ passwordHash \in AllHashes \cup {Null}
    /\ handled = Idle
    /\ filePath = <<>>
    /\ spawned = NoShell
    /\ sudoEnabled = FALSE
    /\ disk = NoFile

ChangeNext ==
    \/ \E c \in Conns, password \in Passwords, oldPassword \in Passwords :
          SetPasswordStart(c, password, oldPassword)
    \/ \E c \in Conns : SetPasswordVerified(c)
    \/ \E c \in Conns : SetPasswordHashed(c)

ChangeSpec == ChangeInit /\ [][ChangeNext]_vars

\* ------------------------------------------------------------------ push subscriptions
\* NotifySpec follows NotificationService: subscribe calls and up to two
\* sendNotification calls in flight, each suspended on Promise.all.

Endpoints == {"e1", "e2"}

\* What a push attempt comes to: delivered, rejected with 404 or 410, or
\* rejected with another error.
PushOutcomes == {"sent", "expired", "error"}

\* subscribe(subscription): appended unless the endpoint is already listed;
\* the list is saved after an append.
Subscribe(e) ==
    /\ IF \E k \in 1..Len(subscriptions) : subscriptions[k] = e
       THEN UNCHANGED <<subscriptions, subsFile>>
       ELSE /\ subscriptions' = Append(subscriptions, e)
            /\ subsFile' = subscriptions'
    /\ UNCHANGED <<sends, loopVars, runs, requests, coreVars, handlerVars, vaultVars, shellVars>>

\* sendNotification up to the await: one push per listed subscription, in
\* list order; results holds what each push will come to.
SendNotification(i, results) ==
    /\ sends[i].stage = "idle"
    /\ Len(results) = Len(subscriptions)
    /\ sends' = [sends EXCEPT ![i] =
                    [stage |-> "awaiting", targets |-> subscriptions, results |-> results]]
    /\ UNCHANGED <<subscriptions, subsFile, loopVars, runs, requests, coreVars,
                   handlerVars, vaultVars, shellVars>>

\* The clean-up of sendNotification: the entry at every index whose result
\* is 'expired' is set to null in the list as it is now, and the nulls are
\* filtered out.
CleanUp(subs, targets, results) ==
    LET Keep(k) == ~(k <= Len(results) /\ results[k] = "expired")
        kept == SelectSeq([k \in 1..Len(subs) |-> k], Keep)
    IN  [j \in 1..Len(kept) |-> subs[kept[j]]]

\* sendNotification after Promise.all has resolved.
SendResume(i) ==
    /\ sends[i].stage = "awaiting"
    /\ sends' = [sends EXCEPT ![i] = NoSend]
    /\ IF \E k \in 1..Len(sends[i].results) : sends[i].results[k] = "expired"
       THEN /\ subscriptions' = CleanUp(subscriptions, sends[i].targets, sends[i].results)
            /\ subsFile' = subscriptions'
       ELSE UNCHANGED <<subscriptions, subsFile>>
    /\ UNCHANGED <<loopVars, runs, requests, coreVars, handlerVars, vaultVars, shellVars>>

\* The endpoints whose push, made by call i, reported expired.
ReportedExpired(i) ==
    {sends[i].targets[k] :
        k \in {j \in 1..Len(sends[i].results) : sends[i].results[j] = "expired"}}

NotifyInit ==
    /\ ConcIdle
    /\ sessions = <<>>
    /\ dashboardPasswordHash = Null
    /\ sudoPasswordHash = Null
    /\ now = 1
    /\ pending = NoPending
    /\ last = [op |-> "init", c |-> NoOne, ok |-> TRUE, ran |-> FALSE, pre |-> "none"]
    /\ sudoMode = FALSE
    /\ passwordHash = Null
    /\ handled = Idle
    /\ filePath = <<>>
    /\ spawned = NoShell
    /\ sudoEnabled = FALSE
    /\ disk = NoFile

NotifyNext ==
    \/ \E e \in Endpoints : Subscribe(e)
    \/ \E i \in SendIds :
          \E results \in [1..Len(subscriptions) -> PushOutcomes] : SendNotification(i, results)
    \/ \E i \in SendIds : SendResume(i)

NotifySpec == NotifyInit /\ [][NotifyNext]_vars

\* ------------------------------------------------------------------ claims

\* C1: in every reachable state, for every connection, isSudo(c) implies
\* isAuthenticated(c), and no stored session record has isSudo without
\* isAuthenticated.
ElevatedImpliesAuthenticated ==
    \A c \in Conns :
        /\ isSudo(sessions, c, now)
              => isAuthenticated(sessions, c, now, dashboardPasswordHash)
        /\ c \in DOMAIN sessions => (sessions[c].isSudo => sessions[c].isAuthenticated)

\* A connection elevated by a verified password while a dashboard password is set.
ElevatedReached ==
    /\ last.op = "verify" /\ last.ok
    /\ dashboardPasswordHash # Null
    /\ isSudo(sessions, last.c, now)

\* C2: after logout(c), from whatever state c was in, isSudo(c) is false.
LogoutClearsElevation ==
    last.op = "logout" =>
        /\ ~isSudo(sessions, last.c, now)
        /\ ~sessions[last.c].isSudo
        /\ ~sessions[last.c].isAuthenticated

LogoutOfElevated == last.op = "logout" /\ last.pre = "elevated"

\* C3: while dashboardPasswordHash is null, isAuthenticated(c) is true for every
\* connection id, whatever its stored record (none, unauthenticated, expired).
OpenDashboardAuthenticatesAll ==
    dashboardPasswordHash = Null =>
        /\ \A c \in Conns : isAuthenticated(sessions, c, now, dashboardPasswordHash)
        /\ last.op = "isAuthenticated" => last.ok

\* isAuthenticated answered for a never-seen connection in open mode while the
\* other connection's record is expired.
OpenDashboardQuery ==
    /\ dashboardPasswordHash = Null
    /\ last.op = "isAuthenticated" /\ last.pre = "none" /\ last.ok
    /\ \E c \in Conns \ {last.c} :
           StateOf(sessions, c, now) \in {"expiredUnlocked", "expiredElevated"}

\* C4: with both hashes null, requestToggleSudo on a connection without a session
\* record (one that never logged in) reports success and leaves it authenticated
\* and elevated.
OpenVaultToggleElevates ==
    (/\ last.op = "requestToggleSudo" /\ last.pre = "none"
     /\ dashboardPasswordHash = Null /\ sudoPasswordHash = Null)
    => /\ last.ok
       /\ isAuthenticated(sessions, last.c, now, dashboardPasswordHash)
       /\ isSudo(sessions, last.c, now)

LazyExpiry ==
    dashboardPasswordHash # Null =>
        /\ \A c \in DOMAIN sessions :
               now > sessions[c].expiresAt =>
                   /\ ~isAuthenticated(sessions, c, now, dashboardPasswordHash)
                   /\ ~isSudo(sessions, c, now)
        /\ (/\ last.op \in {"isAuthenticated", "isSudo"}
            /\ last.pre \in {"expiredUnlocked", "expiredElevated"}) => ~last.ok

\* isSudo asked of an elevated session that expired and was never swept.
ExpiredElevatedQueried ==
    /\ dashboardPasswordHash # Null
    /\ last.op = "isSudo" /\ last.pre = "expiredElevated" /\ ~last.ok

\* C7: a gate check (isAuthenticated or isSudo) that returns true for a stored,
\* authenticated session leaves its expiresAt at now + TTL.
GateCheckRefreshes ==
    (/\ last.op \in {"isAuthenticated", "isSudo"} /\ last.ok
     /\ last.pre \in {"unlocked", "elevated"})
    => sessions[last.c].expiresAt = now + SessionTTL

\* C8: a root command is spawned only for a connection whose session is elevated.
RootModeRequiresElevation ==
    last.ran => last.pre = "elevated"

DangerousEffects ==
    {"terminal.write", "file.delete", "system.update", "system.reboot",
     "system.shutdown", "package.uninstall", "ujust.update"}

\* C9: a request handled while sudo mode is off carries out no dangerous action.
UserModeBlocksDangerousActions ==
    ~handled.sudo => handled.effects \cap DangerousEffects = {}

\* C10: a request rejected by the sudo gate gets a reply.
RejectedRequestGetsReply ==
    handled.rejected => handled.emitted # {}

SetPasswordSuccessMeansPersisted ==
    (last.op \in {"setDashboardPassword", "setSudoPassword"} /\ last.ok) =>
        disk = Json([dashboardPasswordHash |-> dashboardPasswordHash,
                     sudoPasswordHash |-> sudoPasswordHash,
                     sudoEnabled |-> sudoEnabled])

\* C13: a start on a legacy record (passwordHash, no two-tier field) sets both
\* tiers to the legacy hash, so every password that matched it verifies on
\* both tiers; setting one tier leaves the other alone; a save that reaches
\* the file writes the two-tier record without the legacy field, which a later
\* start reads back field by field.
LegacyMigration ==
    [][/\ (Restart /\ disk.kind = "json" /\ "passwordHash" \in DOMAIN disk.data
             /\ "dashboardPasswordHash" \notin DOMAIN disk.data) =>
              /\ dashboardPasswordHash' = disk.data.passwordHash
              /\ sudoPasswordHash' = disk.data.passwordHash
              /\ \A p \in Passwords :
                    Compare(p, disk.data.passwordHash) =>
                        /\ Compare(p, dashboardPasswordHash')
                        /\ verifySudoPassword(p, sudoPasswordHash')
       /\ \A p \in NewPasswords, o \in WriteOutcomes :
              /\ SetDashboardPassword(p, o) => sudoPasswordHash' = sudoPasswordHash
              /\ SetSudoPassword(p, o) => dashboardPasswordHash' = dashboardPasswordHash
       /\ \A p \in NewPasswords :
              (SetDashboardPassword(p, "written") \/ SetSudoPassword(p, "written")) =>
                  /\ disk'.kind = "json"
                  /\ "passwordHash" \notin DOMAIN disk'.data
                  /\ disk'.data.dashboardPasswordHash = dashboardPasswordHash'
                  /\ disk'.data.sudoPasswordHash = sudoPasswordHash'
       /\ (Restart /\ disk.kind = "json" /\ "passwordHash" \notin DOMAIN disk.data) =>
              /\ dashboardPasswordHash' = disk.data.dashboardPasswordHash
              /\ sudoPasswordHash' = disk.data.sudoPasswordHash]_vars

\* Restarted on the two-tier record that a save after the migration wrote: the
\* elevation tier still holds the legacy hash, the dashboard tier was changed.
MigratedRecordReloaded ==
    /\ last.op = "load"
    /\ disk.kind = "json"
    /\ "passwordHash" \notin DOMAIN disk.data
    /\ sudoPasswordHash = Hash("b")
    /\ dashboardPasswordHash # sudoPasswordHash

\* C14: login(c, password) with a password that does not match the stored
\* dashboard hash resolves to false, and neither of its two steps changes the
\* session table, the hashes or auth.json, whatever record c has.
FailedLoginChangesNothing ==
    [][\A c \in Conns :
         /\ \A p \in Passwords :
               (Login(c, p) /\ dashboardPasswordHash # Null
                  /\ dashboardPasswordHash # Hash(p)) =>
                   /\ pending'.op = "login" /\ ~pending'.valid
                   /\ sessions' = sessions
                   /\ <<dashboardPasswordHash', sudoPasswordHash', disk'>>
                        = <<dashboardPasswordHash, sudoPasswordHash, disk>>
         /\ (LoginResume(c) /\ ~pending.valid) =>
                   /\ last'.op = "login" /\ ~last'.ok
                   /\ sessions' = sessions
                   /\ <<dashboardPasswordHash', sudoPasswordHash', disk'>>
                        = <<dashboardPasswordHash, sudoPasswordHash, disk>>]_vars

\* A failed login on a connection that was Elevated, which still is.
FailedLoginOnElevated ==
    /\ last.op = "login" /\ ~last.ok
    /\ last.pre = "elevated"
    /\ isSudo(sessions, last.c, now)

\* C15: requestToggleSudo(c) on a connection that is not authenticated (a
\* dashboard password is set and c has no live authenticated record) does not
\* report success and leaves c neither authenticated nor elevated.
ToggleOnLockedFails ==
    (/\ last.op = "requestToggleSudo"
     /\ dashboardPasswordHash # Null
     /\ last.pre \in {"none", "locked", "expiredUnlocked", "expiredElevated"}) =>
        /\ ~last.ok
        /\ ~isSudo(sessions, last.c, now)
        /\ ~isAuthenticated(sessions, last.c, now, dashboardPasswordHash)

\* C16: immediately after the disconnect handler has run for a connection, the
\* session table holds no record for that connection id.
DisconnectRemovesSession ==
    last.op = "disconnect" => last.c \notin DOMAIN sessions

RevokeKeepsSession ==
    [][\A c \in Conns :
         (RequestToggleSudo(c) /\ StateOf(sessions, c, now) = "elevated") =>
             /\ last'.ok
             /\ ~requestToggleSudoResult(sessions, c, now, sudoPasswordHash).requiresPassword
             /\ sessions' = Put(sessions, c, [sessions[c] EXCEPT !.isSudo = FALSE])
             /\ ~isSudo(sessions', c, now')
             /\ StateOf(sessions', c, now') = "unlocked"]_vars

\* A revocation on a connection with an elevation password configured.
RevokedWithPasswordSet ==
    /\ last.op = "requestToggleSudo" /\ last.ok
    /\ last.pre = "elevated"
    /\ sudoPasswordHash # Null
    /\ StateOf(sessions, last.c, now) = "unlocked"

\* C19: setDashboardPassword("") leaves the dashboard hash null, and a
\* login(c, "") that follows it, on any connection, returns true and leaves c
\* authenticated.
OpenModeRoundTrip ==
    [][/\ \A o \in WriteOutcomes :
             SetDashboardPassword("", o) => dashboardPasswordHash' = Null
       /\ \A c \in Conns :
             (/\ last.op = "setDashboardPassword"
              /\ dashboardPasswordHash = Null
              /\ Login(c, "")) =>
                 /\ last'.op = "login" /\ last'.ok
                 /\ sessions'[c].isAuthenticated
                 /\ isAuthenticated(sessions', c, now', dashboardPasswordHash')]_vars

\* A login that succeeded on the cleared dashboard tier of a vault that was
\* migrated from a one-password record: the elevation tier still holds the
\* old hash, the file holds the two-tier record with the dashboard hash null.
LoggedInAfterClearing ==
    /\ last.op = "login" /\ last.ok
    /\ dashboardPasswordHash = Null
    /\ sudoPasswordHash = Hash("b")
    /\ disk = Json([dashboardPasswordHash |-> Null, sudoPasswordHash |-> Hash("b"),
                    sudoEnabled |-> sudoEnabled])
    /\ sessions[last.c].isAuthenticated

SweepLocksExpiredOnly ==
    [][CleanupSessions =>
         \A c \in Conns :
            IF c \in DOMAIN sessions /\ sessions[c].isAuthenticated
                  /\ now > sessions[c].expiresAt
            THEN /\ StateOf(sessions', c, now') \in {"none", "locked"}
                 /\ ~isSudo(sessions', c, now')
                 /\ dashboardPasswordHash # Null =>
                        ~isAuthenticated(sessions', c, now', dashboardPasswordHash')
            ELSE /\ isAuthenticated(sessions', c, now', dashboardPasswordHash')
                      = isAuthenticated(sessions, c, now, dashboardPasswordHash)
                 /\ isSudo(sessions', c, now') = isSudo(sessions, c, now)]_vars

\* A sweep that removed one connection's record and kept the other
\* connection, whose session ends exactly now, Elevated.
SweptWithLiveSessionKept ==
    /\ last.op = "cleanupSessions"
    /\ \E c \in DOMAIN sessions :
          /\ isSudo(sessions, c, now)
          /\ sessions[c].expiresAt = now
    /\ \E c \in Conns : c \notin DOMAIN sessions

\* C25: an elevation or a revocation requested by connection c changes the
\* answer of isSudo for no other connection b, and no other connection is
\* sent the resulting elevation status.
ElevationIsPerConnection ==
    [][\A c \in Conns, p \in Passwords :
         (AuthRequestToggle(c) \/ AuthVerifyPassword(c, p)) =>
             \A b \in Conns \ {c} :
                /\ HandlerIsSudo(b)' = HandlerIsSudo(b)
                /\ b \notin StatusRecipients(handled')]_vars


\* C21: while an escalator child process has not exited, a request of
\* another connection that is first in the queue can be dispatched: the
\* loop is not held by the pending escalation.
PendingEscalationYieldsLoop ==
    \A e \in children :
        (inbox # <<>> /\ Head(inbox).c # e.c) => ENABLED Dispatch


\* C22: two services started from files that differ only in sudoEnabled and
\* given the same operations answer isSudo(c) and isAuthenticated(c) alike
\* for every connection at every step.
PreferenceGrantsNothing ==
    \A c \in Conns :
       /\ isSudo(runs[1].sessions, c, now) = isSudo(runs[2].sessions, c, now)
       /\ isAuthenticated(runs[1].sessions, c, now, runs[1].dashboardPasswordHash)
            = isAuthenticated(runs[2].sessions, c, now, runs[2].dashboardPasswordHash)

\* An elevated connection and a locked-out one in both services, with an
\* elevation password set and the two preferences still different.
ElevatedUnderBothPreferences ==
    /\ runs[1].sudoEnabled # runs[2].sudoEnabled
    /\ runs[1].sudoPasswordHash # Null
    /\ \E c \in Conns : isSudo(runs[1].sessions, c, now) /\ isSudo(runs[2].sessions, c, now)
    /\ \E c \in Conns : ~isAuthenticated(runs[1].sessions, c, now, runs[1].dashboardPasswordHash)


\* C23: the status record of checkSession(c) agrees with the gate queries:
\* its isAuthenticated field equals isAuthenticated(c), the elevated state
\* the client derives from it equals isSudo(c), and needsPassword is the
\* negation of isAuthenticated(c).
SessionStatusAgreesWithGate ==
    \A c \in Conns :
       LET data == checkSession(sessions, c, now, dashboardPasswordHash, sudoEnabled)
       IN  /\ data.isAuthenticated
                = isAuthenticated(sessions, c, now, dashboardPasswordHash)
           /\ clientIsSudo(data) = isSudo(sessions, c, now)
           /\ data.needsPassword
                = ~isAuthenticated(sessions, c, now, dashboardPasswordHash)


\* C26: a login of connection c that was suspended on the password
\* comparison when removeSession(c) ran leaves no session record for c when
\* it completes.
RemovedSessionStaysRemoved ==
    [][\A c \in Conns :
         (last.op = "removeSession" /\ last.c = c /\ LoginResume(c)) =>
             c \notin DOMAIN sessions']_vars


\* C27: whenever a set-password request stores a hash, the hash it replaces
\* is the one its oldPassword was verified against.
ReplacementVerifiedAgainstReplaced ==
    [][\A c \in Conns : Replaces(c) => requests[c].against = passwordHash]_vars


\* C28: for a record with now > expiresAt, a step of refreshSession(c),
\* requestToggleSudo(c) or setSudo(c, true) leaves the record not
\* authenticated, not elevated and with the same expiresAt.
ExpiredStaysExpired ==
    [][\A c \in DOMAIN sessions :
         (/\ now > sessions[c].expiresAt
          /\ last'.c = c
          /\ \/ last'.op \in {"refreshSession", "requestToggleSudo"}
             \/ last'.op = "verify" /\ last'.ok)
         => /\ ~sessions'[c].isAuthenticated
            /\ ~sessions'[c].isSudo
            /\ sessions'[c].expiresAt = sessions[c].expiresAt]_vars

\* A refresh has just been applied to a session that was elevated when its
\* hour ran out.
RefreshedAfterExpiry ==
    /\ last.op = "refreshSession"
    /\ last.pre = "expiredElevated"
    /\ last.c \in DOMAIN sessions
    /\ sessions[last.c].expiresAt < now


\* C29: setDashboardPassword and setSudoPassword change no session record:
\* every connection is elevated afterwards exactly when it was before, and a
\* connection whose record was authenticated is still authenticated.
SetPasswordKeepsSessions ==
    [][last'.op \in {"setDashboardPassword", "setSudoPassword"} =>
         /\ sessions' = sessions
         /\ \A c \in Conns :
               /\ isSudo(sessions', c, now') = isSudo(sessions, c, now)
               /\ StateOf(sessions, c, now) \in {"unlocked", "elevated"} =>
                     isAuthenticated(sessions', c, now', dashboardPasswordHash')]_vars

\* The dashboard password has just been changed to a new one while a
\* connection was elevated and another was logged in.
PasswordChangedUnderSessions ==
    /\ last.op = "setDashboardPassword"
    /\ dashboardPasswordHash # Null
    /\ disk.kind = "json"
    /\ \E c \in Conns : StateOf(sessions, c, now) = "elevated"
    /\ \E c \in Conns : StateOf(sessions, c, now) = "unlocked"


\* C30: when a sendNotification call completes, the subscription list loses
\* exactly the subscriptions whose push, made by that call, reported expired,
\* and keeps every other one in its place.
SendRemovesExactlyExpired ==
    [][\A i \in SendIds :
         SendResume(i) =>
            LET Keep(e) == e \notin ReportedExpired(i)
            IN  subscriptions' = SelectSeq(subscriptions, Keep)]_vars

====
